---- MODULE Spec2Model ----
(***************************************************************************)
(* Model of the chat client's streaming response assembler                 *)
(* (handleStreamResponse) and of the handlers that share its buffer        *)
(* (handleSendPrompt, handleNewChat, handleChatClick), together with the   *)
(* chat store they talk to.                                                *)
(*                                                                         *)
(* Text is a sequence of symbols.  A symbol is either one character of     *)
(* content ("a", "b", "SP", ",") or one indivisible piece of wire syntax:  *)
(*   "NL"         the newline character                                    *)
(*   "Data"       the SSE field prefix            data:<space>             *)
(*   "Done"       the SSE termination sentinel    [DONE]                   *)
(*   "MsgOpen"    {"message":{"content":"      "MsgClose"    "}}           *)
(*   "RespOpen"   {"response":"                "RespClose"   "}            *)
(*   "DeltaOpen"  {"choices":[{"delta":{"content":"                        *)
(*   "DeltaClose" "}}]}                                                    *)
(*   "Meta"       a complete JSON object with no content field             *)
(*   "MsgNoC"     {"message":{"role":"assistant"}}  (message, no content)  *)
(*   "DeltaNum"   {"choices":[{"delta":{"content":5}}]}                    *)
(*   "Null"       the JSON text null                                       *)
(* "undefined" and "5" are the texts JavaScript appends for a missing and  *)
(* for a numeric content.  A chunk boundary may fall between any two       *)
(* symbols.                                                                *)
(***************************************************************************)
EXTENDS Integers, Sequences, FiniteSets, TLC

\* ------------------------------------------------------------------ bounds
MaxFrames == 2       \* frames per response in the stream-only specification
MaxChunk == 8        \* symbols per transport chunk, at most
MaxSends == 2        \* invocations of handleSendPrompt in one run
MaxClicks == 1       \* handleChatClick fetches in flight at once
MaxNav == 1          \* uses of New Chat and of the chat list in one run
MaxDeletes == 1      \* confirmDelete requests in flight at once
MaxChats == 2        \* chats in the store-only specification
MaxMessages == 3     \* messages in the store-only specification

\* ----------------------------------------------------------------- symbols
NL == "NL"
Whitespace == {"SP"}
Punctuation == {","}
Letters == {"a", "b"}
\* what may stand between the quotes of a JSON string of the model
StrChar == Letters \cup Whitespace \cup Punctuation \cup {"Done"}

\* ------------------------------------------------------- string operations
RECURSIVE SplitAcc(_, _, _)
SplitAcc(s, cur, acc) ==
    IF s = <<>> THEN Append(acc, cur)
    ELSE IF Head(s) = NL THEN SplitAcc(Tail(s), <<>>, Append(acc, cur))
    ELSE SplitAcc(Tail(s), Append(cur, Head(s)), acc)

\* chunk.split('\n')
SplitLines(chunk) == SplitAcc(chunk, <<>>, <<>>)

\* !line.trim()
IsBlank(line) == \A k \in 1..Len(line) : line[k] \in Whitespace

RECURSIVE TrimLeft(_)
TrimLeft(s) ==
    IF s # <<>> /\ Head(s) \in Whitespace THEN TrimLeft(Tail(s)) ELSE s

RECURSIVE TrimRight(_)
TrimRight(s) ==
    IF s # <<>> /\ s[Len(s)] \in Whitespace
    THEN TrimRight(SubSeq(s, 1, Len(s) - 1)) ELSE s

Trim(s) == TrimRight(TrimLeft(s))

\* line.includes('[DONE]')
IncludesDone(line) == \E k \in 1..Len(line) : line[k] = "Done"

\* line.startsWith('data: ')
StartsWithData(line) == line # <<>> /\ Head(line) = "Data"

\* line.slice(6), used only on a line that starts with the prefix
SlicePrefix(line) == Tail(line)

\* ------------------------------------------------------------- JSON.parse
\* The value JSON.parse yields for a text: ok = FALSE when it throws a
\* SyntaxError.  shape names the field a record exposes, has says what its
\* content is: a string (text), a number (text is its decimal form) or
\* missing (the property reads as undefined).
NoValue == [ok |-> FALSE, shape |-> "none", has |-> "missing", text |-> <<>>]
Value(shape, has, text) == [ok |-> TRUE, shape |-> shape, has |-> has, text |-> text]

Inner(t) == SubSeq(t, 2, Len(t) - 1)
IsQuoted(t, open, close) ==
    /\ Len(t) >= 2
    /\ t[1] = open
    /\ t[Len(t)] = close
    /\ \A k \in 2..(Len(t) - 1) : t[k] \in StrChar

JSONparse(s) ==
    LET t == Trim(s) IN
    IF IsQuoted(t, "MsgOpen", "MsgClose") THEN Value("message", "string", Inner(t))
    ELSE IF IsQuoted(t, "RespOpen", "RespClose") THEN Value("response", "string", Inner(t))
    ELSE IF IsQuoted(t, "DeltaOpen", "DeltaClose") THEN Value("choices", "string", Inner(t))
    ELSE IF t = <<"MsgNoC">> THEN Value("message", "missing", <<>>)
    ELSE IF t = <<"DeltaNum">> THEN Value("choices", "number", <<"5">>)
    ELSE IF t = <<"Meta">> THEN Value("other", "missing", <<>>)
    ELSE IF t = <<"Null">> THEN Value("null", "missing", <<>>)
    ELSE NoValue

\* the truthiness of a content value: a non-empty string or a non-zero number
Truthy(d) == (d.has = "string" /\ d.text # <<>>) \/ d.has = "number"

\* what  buffer += content  appends
ToText(d) == IF d.has = "missing" THEN <<"undefined">> ELSE d.text

\* ------------------------------------------------ content.split(/(\s+|[.,!?])/)
\* The non-empty pieces of the split: every run of whitespace, every single
\* punctuation character and every run of other characters, in order.
Class(c) == IF c \in Whitespace THEN "ws" ELSE IF c \in Punctuation THEN "punct" ELSE "word"

RECURSIVE WordsAcc(_, _)
WordsAcc(s, acc) ==
    IF s = <<>> THEN acc
    ELSE LET c == Head(s)
             n == Len(acc)
             joins == /\ n > 0
                      /\ Class(c) # "punct"
                      /\ Class(acc[n][1]) = Class(c)
         IN  IF joins
             THEN WordsAcc(Tail(s), [acc EXCEPT ![n] = Append(@, c)])
             ELSE WordsAcc(Tail(s), Append(acc, <<c>>))

\* The split without the capturing group, content.split(/\s+|[.,!?]/): the
\* separators are dropped.
SplitWordsNoSeparators(content) ==
    SelectSeq(WordsAcc(content, <<>>), LAMBDA w : Class(w[1]) = "word")

SplitWords(content) == WordsAcc(content, <<>>)

\* ------------------------------------------------------- one line's effect
\* What the body of the for-loop does with one line:
\*   skip      nothing (continue, no matching shape, or an error caught
\*             inside the loop)
\*   append    streamBufferRef.current += text; setStreamedResponse(...)
\*   pace      wordBuffer += text, then the words of text one by one
\*   dirty     wordBuffer += text, then a TypeError caught inside the loop
\*   throw     an exception that leaves the for-loop (LineDelimitedJSON: to
\*             the catch around the loop)
\*   abort     an exception that reaches the catch of the read loop
Effect(kind, text) == [kind |-> kind, text |-> text]

\* OllamaLine without the try/catch of lines 315 and 331: a line that cannot be
\* decoded ends the read loop.
OllamaLineNoCatch(line) ==
    IF IsBlank(line) THEN Effect("skip", <<>>)
    ELSE LET data == JSONparse(line) IN
         IF ~data.ok THEN Effect("abort", <<>>)
         ELSE IF data.shape = "null" THEN Effect("abort", <<>>)
         ELSE IF data.shape = "message" THEN Effect("append", ToText(data))
         ELSE IF data.shape = "response" /\ Truthy(data) THEN Effect("append", ToText(data))
         ELSE Effect("skip", <<>>)

\* OllamaLine without the else-branch of lines 325-329: a response text is
\* passed over.
OllamaLineMessageOnly(line) ==
    IF IsBlank(line) THEN Effect("skip", <<>>)
    ELSE LET data == JSONparse(line) IN
         IF ~data.ok THEN Effect("throw", <<>>)
         ELSE IF data.shape = "null" THEN Effect("throw", <<>>)
         ELSE IF data.shape = "message" THEN Effect("append", ToText(data))
         ELSE Effect("skip", <<>>)

\* lines 317-330
OllamaLine(line) ==
    IF IsBlank(line) THEN Effect("skip", <<>>)
    ELSE LET data == JSONparse(line) IN
         IF ~data.ok THEN Effect("throw", <<>>)
         ELSE IF data.shape = "null" THEN Effect("throw", <<>>)
         ELSE IF data.shape = "message" THEN Effect("append", ToText(data))
         ELSE IF data.shape = "response" /\ Truthy(data) THEN Effect("append", ToText(data))
         ELSE Effect("skip", <<>>)

\* SseRecord without the test of line 346: every content is paced.
SseRecordAlwaysPaced(jsonData, isGemini) ==
    IF jsonData.shape = "null" THEN Effect("skip", <<>>)
    ELSE IF jsonData.shape = "choices" /\ Truthy(jsonData)
    THEN IF jsonData.has = "string"
         THEN Effect("pace", jsonData.text)
         ELSE Effect("dirty", ToText(jsonData))
    ELSE Effect("skip", <<>>)

\* What SseLine does with a record that parsed (lines 343-361).
SseRecord(jsonData, isGemini) ==
    IF jsonData.shape = "null" THEN Effect("skip", <<>>)
    ELSE IF jsonData.shape = "choices" /\ Truthy(jsonData)
    THEN IF isGemini
         THEN IF jsonData.has = "string"
              THEN Effect("pace", jsonData.text)
              ELSE Effect("dirty", ToText(jsonData))
         ELSE Effect("append", ToText(jsonData))
    ELSE Effect("skip", <<>>)

\* SseLine without the sentinel test of line 338.
SseLineNoSentinel(line, isGemini) ==
    IF IsBlank(line) THEN Effect("skip", <<>>)
    ELSE IF StartsWithData(line)
    THEN LET jsonData == JSONparse(SlicePrefix(line)) IN
         IF ~jsonData.ok THEN Effect("skip", <<>>)
         ELSE SseRecord(jsonData, isGemini)
    ELSE Effect("skip", <<>>)

\* SseLine with the fallback of the other branch (line 332) in its catch: the
\* raw line is appended.
SseLineRawOnError(line, isGemini) ==
    IF IsBlank(line) \/ IncludesDone(line) THEN Effect("skip", <<>>)
    ELSE IF StartsWithData(line)
    THEN LET jsonData == JSONparse(SlicePrefix(line)) IN
         IF ~jsonData.ok THEN Effect("append", line)
         ELSE SseRecord(jsonData, isGemini)
    ELSE Effect("skip", <<>>)

\* SseLine without the try/catch of lines 341 and 362.
SseLineNoCatch(line, isGemini) ==
    IF IsBlank(line) \/ IncludesDone(line) THEN Effect("skip", <<>>)
    ELSE IF StartsWithData(line)
    THEN LET jsonData == JSONparse(SlicePrefix(line)) IN
         IF ~jsonData.ok THEN Effect("abort", <<>>)
         ELSE SseRecord(jsonData, isGemini)
    ELSE Effect("skip", <<>>)

\* lines 337-366
\* SseLine with a sentinel line that ends the read loop (a return at line 338
\* in place of the continue).
SseLineSentinelEnds(line, isGemini) ==
    IF IsBlank(line) THEN Effect("skip", <<>>)
    ELSE IF IncludesDone(line) THEN Effect("abort", <<>>)
    ELSE IF StartsWithData(line)
    THEN LET jsonData == JSONparse(SlicePrefix(line)) IN
         IF ~jsonData.ok THEN Effect("skip", <<>>)
         ELSE SseRecord(jsonData, isGemini)
    ELSE Effect("skip", <<>>)

SseLine(line, isGemini) ==
    IF IsBlank(line) \/ IncludesDone(line) THEN Effect("skip", <<>>)
    ELSE IF StartsWithData(line)
    THEN LET jsonData == JSONparse(SlicePrefix(line)) IN
         IF ~jsonData.ok THEN Effect("skip", <<>>)
         ELSE SseRecord(jsonData, isGemini)
    ELSE Effect("skip", <<>>)

\* line 314
LineEffect(provider, isGemini, line) ==
    IF provider = "ollama" THEN OllamaLine(line) ELSE SseLine(line, isGemini)

\* ------------------------------------------------------------------- state
NoChat == 0                      \* currentChatId = null
Sends == 1..MaxSends

VARIABLES
    streamBuffer,           \* streamBufferRef.current
    streamedResponse,       \* the streamedResponse state (what the UI shows)
    currentChatId,          \* NoChat or a chat id
    chatHistory,            \* the messages shown
    chats,                  \* the chat list of the sidebar, as chat ids
    isGenerating,
    isConversationStarted,
    settingsError,          \* TRUE when the failure notice is set
    dbChats,                \* the store's chats, most recently updated first
    dbMessages,             \* the store's messages, in creation order
    clicks,                 \* chat ids whose handleChatClick awaits its fetch
    navs,                   \* uses of New Chat and of the chat list so far
    chatToDelete,           \* NoChat or the chat whose confirmation is shown
    deletes,                \* the confirmDelete invocations that await their fetch
    deleteError,            \* TRUE when the confirmation shows an error
    res,                    \* the store's answer to a request made to it directly
    apiProvider,            \* "openrouter" or "ollama"
    isGeminiModel,          \* selectedLLM.includes('gemini')
    sess                    \* one record per invocation of handleSendPrompt

vars == <<streamBuffer, streamedResponse, currentChatId, chatHistory, chats,
          isGenerating, isConversationStarted, settingsError, dbChats,
          dbMessages, clicks, navs, chatToDelete, deletes, deleteError, res,
          apiProvider, isGeminiModel, sess>>

bufVars == <<streamBuffer, streamedResponse>>
uiVars == <<currentChatId, chatHistory, chats, isConversationStarted>>
dbVars == <<dbChats, dbMessages>>
delVars == <<chatToDelete, deletes, deleteError, res>>
settings == <<apiProvider, isGeminiModel>>
fixed == <<navs, apiProvider, isGeminiModel>>

\* A session record.  pc is the await the invocation is suspended at ("lines"
\* is the synchronous run of the for-loop over the lines of one chunk).
\* state, locked and result belong to handleStreamResponse.  notes, lastNote,
\* readErr, eos, sawPartial, abandoned and notesThen are history fields: the
\* number of setStreamedResponse calls the session made and the last value it
\* passed, whether reader.read() rejected, whether it signalled done, whether
\* a chunk ended inside a line, whether the user left the conversation while
\* the session was reading, and the value of notes at that moment.
IdleSession ==
    [pc |-> "idle", provider |-> "none", paced |-> FALSE, chatId |-> NoChat,
     wire |-> <<>>, pos |-> 0, chunk |-> <<>>, lines |-> <<>>, words |-> <<>>,
     wordBuffer |-> <<>>, state |-> "None", locked |-> FALSE, result |-> <<>>,
     outcome |-> "none", notes |-> 0, lastNote |-> <<>>, readErr |-> FALSE,
     eos |-> FALSE, sawPartial |-> FALSE, abandoned |-> FALSE, notesThen |-> 0]

\* JavaScript runs a handler to its next await before any other callback: while
\* a session is inside the for-loop of a chunk nothing else runs.
Busy == \E i \in Sends : sess[i].pc = "lines"

\* completeResponse.trim() is empty
IsBlankText(t) == \A k \in 1..Len(t) : t[k] \in Whitespace \cup {NL}

\* ------------------------------------------------- handleStreamResponse
\* The pc a session continues at once the current line (or word) is done.
AfterLine(lines) == IF lines = <<>> THEN "read" ELSE "lines"

\* lines 309-316: reader.read() resolves with the next k symbols.
ReadChunk(i, k) ==
    LET s == sess[i]
        chunk == SubSeq(s.wire, s.pos + 1, s.pos + k)
    IN  /\ ~Busy
        /\ s.pc = "read"
        /\ k \in 1..MaxChunk
        /\ s.pos + k <= Len(s.wire)
        /\ sess' = [sess EXCEPT ![i] =
                      [s EXCEPT !.pc = "lines", !.pos = s.pos + k,
                                !.chunk = chunk, !.lines = SplitLines(chunk),
                                !.state = "Streaming",
                                !.sawPartial = s.sawPartial \/ chunk[k] # NL]]
        /\ UNCHANGED <<bufVars, uiVars, isGenerating, settingsError, dbVars, clicks, delVars, fixed>>

\* Failed with the catch of line 375 inside the while loop and no rethrow: the
\* error is logged and the loop goes on reading.
FailedButReading(s) ==
    [s EXCEPT !.state = "Failed", !.lines = <<>>, !.words = <<>>]

\* Failed without the finally of lines 378-380: the reader is not released.
FailedNoRelease(s) ==
    [s EXCEPT !.pc = "done", !.state = "Failed",
              !.outcome = "error", !.lines = <<>>, !.words = <<>>]

\* lines 375-380 and 534-539: an exception reaches the catch of the read loop,
\* is rethrown after the reader is released, and handleSendPrompt reports it.
Failed(s) ==
    [s EXCEPT !.pc = "done", !.state = "Failed", !.locked = FALSE,
              !.outcome = "error", !.lines = <<>>, !.words = <<>>]

\* lines 317-366: the body of the for-loop, for the next line of the chunk.
ProcessLine(i) ==
    LET s == sess[i]
        line == Head(s.lines)
        rest == Tail(s.lines)
        e == LineEffect(s.provider, s.paced, line)
    IN  /\ s.pc = "lines"
        /\ CASE e.kind = "skip" ->
                  /\ sess' = [sess EXCEPT ![i] =
                                [s EXCEPT !.lines = rest, !.pc = AfterLine(rest)]]
                  /\ UNCHANGED <<bufVars, isGenerating, settingsError, fixed>>
             [] e.kind = "append" ->
                  /\ streamBuffer' = streamBuffer \o e.text
                  /\ streamedResponse' = streamBuffer'
                  /\ sess' = [sess EXCEPT ![i] =
                                [s EXCEPT !.lines = rest, !.pc = AfterLine(rest),
                                          !.notes = s.notes + 1,
                                          !.lastNote = streamBuffer']]
                  /\ UNCHANGED <<isGenerating, settingsError, fixed>>
             [] e.kind = "pace" ->
                  /\ sess' = [sess EXCEPT ![i] =
                                [s EXCEPT !.lines = rest, !.pc = "pace",
                                          !.wordBuffer = s.wordBuffer \o e.text,
                                          !.words = SplitWords(e.text)]]
                  /\ UNCHANGED <<bufVars, isGenerating, settingsError, fixed>>
             [] e.kind = "dirty" ->
                  /\ sess' = [sess EXCEPT ![i] =
                                [s EXCEPT !.lines = rest, !.pc = AfterLine(rest),
                                          !.wordBuffer = s.wordBuffer \o e.text]]
                  /\ UNCHANGED <<bufVars, isGenerating, settingsError, fixed>>
             [] e.kind = "throw" ->
                  \* lines 331-334: the catch around the loop
                  /\ streamBuffer' = streamBuffer \o s.chunk
                  /\ streamedResponse' = streamBuffer'
                  /\ sess' = [sess EXCEPT ![i] =
                                [s EXCEPT !.lines = <<>>, !.pc = "read",
                                          !.notes = s.notes + 1,
                                          !.lastNote = streamBuffer']]
                  /\ UNCHANGED <<isGenerating, settingsError, fixed>>
             [] e.kind = "abort" ->
                  /\ sess' = [sess EXCEPT ![i] = Failed(s)]
                  /\ settingsError' = TRUE
                  /\ isGenerating' = FALSE
                  /\ UNCHANGED bufVars
        /\ UNCHANGED <<uiVars, dbVars, clicks, delVars, fixed>>

\* lines 349-356: the 30 ms timer of the next word fires.
EmitWord(i) ==
    LET s == sess[i]
        rest == Tail(s.words)
    IN  /\ ~Busy
        /\ s.pc = "pace"
        /\ streamBuffer' = streamBuffer \o Head(s.words)
        /\ streamedResponse' = streamBuffer'
        /\ sess' = [sess EXCEPT ![i] =
                      [s EXCEPT !.words = rest,
                                !.notes = s.notes + 1,
                                !.lastNote = streamBuffer',
                                !.wordBuffer = IF rest = <<>> THEN <<>> ELSE s.wordBuffer,
                                !.pc = IF rest = <<>> THEN AfterLine(s.lines) ELSE "pace"]]
        /\ UNCHANGED <<uiVars, isGenerating, settingsError, dbVars, clicks, delVars, fixed>>

\* EndOfStream without the flush of lines 370-374: what wordBuffer holds is
\* dropped.
EndOfStreamNoFlush(i) ==
    LET s == sess[i]
        more == ~IsBlankText(streamBuffer)
    IN  /\ ~Busy
        /\ s.pc = "read"
        /\ s.pos = Len(s.wire)
        /\ sess' = [sess EXCEPT ![i] =
                      [s EXCEPT !.pc = IF more THEN "saveAssistant" ELSE "done",
                                !.state = "Completed", !.locked = FALSE,
                                !.eos = TRUE, !.result = streamBuffer,
                                !.outcome = IF more THEN s.outcome ELSE "ok"]]
        /\ isGenerating' = (more /\ isGenerating)
        /\ UNCHANGED <<bufVars, uiVars, settingsError, dbVars, clicks, delVars, fixed>>

\* EndOfStream without the test of line 474: the returned text is saved
\* whatever it holds.
EndOfStreamSavesBlank(i) ==
    LET s == sess[i]
        flushed == streamBuffer \o s.wordBuffer
    IN  /\ ~Busy
        /\ s.pc = "read"
        /\ s.pos = Len(s.wire)
        /\ streamBuffer' = flushed
        /\ streamedResponse' = IF s.wordBuffer # <<>> THEN flushed ELSE streamedResponse
        /\ sess' = [sess EXCEPT ![i] =
                      [s EXCEPT !.pc = "saveAssistant",
                                !.state = "Completed", !.locked = FALSE,
                                !.eos = TRUE, !.result = flushed,
                                !.notes = IF s.wordBuffer # <<>> THEN s.notes + 1 ELSE s.notes,
                                !.lastNote = IF s.wordBuffer # <<>> THEN flushed ELSE s.lastNote]]
        /\ UNCHANGED <<isGenerating, uiVars, settingsError, dbVars, clicks, delVars, fixed>>

\* lines 310, 370-374, 378-382 and the caller's lines 474 and 537-539:
\* reader.read() signals done.
EndOfStream(i) ==
    LET s == sess[i]
        flushed == streamBuffer \o s.wordBuffer
        more == ~IsBlankText(flushed)
    IN  /\ ~Busy
        /\ s.pc = "read"
        /\ s.pos = Len(s.wire)
        /\ streamBuffer' = flushed
        /\ streamedResponse' = IF s.wordBuffer # <<>> THEN flushed ELSE streamedResponse
        /\ sess' = [sess EXCEPT ![i] =
                      [s EXCEPT !.pc = IF more THEN "saveAssistant" ELSE "done",
                                !.state = "Completed", !.locked = FALSE,
                                !.eos = TRUE, !.result = flushed,
                                !.outcome = IF more THEN s.outcome ELSE "ok",
                                !.notes = IF s.wordBuffer # <<>> THEN s.notes + 1 ELSE s.notes,
                                !.lastNote = IF s.wordBuffer # <<>> THEN flushed ELSE s.lastNote]]
        /\ isGenerating' = (more /\ isGenerating)
        /\ UNCHANGED <<uiVars, settingsError, dbVars, clicks, delVars, fixed>>

\* ReadError with a catch that does not rethrow (line 377): the partial buffer
\* is returned to handleSendPrompt as the response.
ReadErrorNoRethrow(i) ==
    LET s == sess[i]
        more == ~IsBlankText(streamBuffer)
    IN  /\ ~Busy
        /\ s.pc = "read"
        /\ sess' = [sess EXCEPT ![i] =
                      [s EXCEPT !.pc = IF more THEN "saveAssistant" ELSE "done",
                                !.state = "Failed", !.locked = FALSE,
                                !.readErr = TRUE, !.result = streamBuffer,
                                !.outcome = IF more THEN s.outcome ELSE "ok"]]
        /\ isGenerating' = (more /\ isGenerating)
        /\ UNCHANGED <<bufVars, uiVars, settingsError, dbVars, clicks, delVars, fixed>>

\* lines 309, 375-380 and 534-539: reader.read() rejects.
ReadError(i) ==
    LET s == sess[i]
    IN  /\ ~Busy
        /\ s.pc = "read"
        /\ sess' = [sess EXCEPT ![i] = [Failed(s) EXCEPT !.readErr = TRUE]]
        /\ settingsError' = TRUE
        /\ isGenerating' = FALSE
        /\ UNCHANGED <<bufVars, uiVars, dbVars, clicks, delVars, fixed>>

\* ------------------------------------------------------ provider responses
\* The frames a provider sends, each with its line terminator.
MsgFrame(c) == <<"MsgOpen">> \o c \o <<"MsgClose", NL>>
RespFrame(c) == <<"RespOpen">> \o c \o <<"RespClose", NL>>
DeltaFrame(c) == <<"Data", "DeltaOpen">> \o c \o <<"DeltaClose", NL, NL>>
DoneFrame == <<"Data", "Done", NL, NL>>

OllamaFrames ==
    { MsgFrame(<<"a">>), RespFrame(<<"b">>),
      <<"b", NL>>,                 \* a line that is not JSON
      <<"Meta", NL>>,              \* {"done":true}
      <<"MsgNoC", NL>>, <<"Null", NL>> }

SseFrames ==
    { DeltaFrame(<<"a">>), DeltaFrame(<<"a", ",", "SP", "b">>), DeltaFrame(<<>>),
      DeltaFrame(<<"Done">>),          \* a content that quotes the sentinel
      DoneFrame,
      <<"Data", "Meta", NL, NL>>,      \* a role announcement
      <<"Data", "b", NL, NL>>,         \* a data line that is not JSON
      <<"Data", "DeltaNum", NL, NL>> }

RECURSIVE WiresOf(_, _)
WiresOf(frames, n) ==
    IF n = 0 THEN {<<>>}
    ELSE LET shorter == WiresOf(frames, n - 1)
         IN  shorter \cup {w \o f : w \in shorter, f \in frames}

Providers == {"ollama", "openrouter"}
FramesOf(provider) == IF provider = "ollama" THEN OllamaFrames ELSE SseFrames

\* isGeminiModel is derived from the model id (line 304); only the SSE branch
\* reads it.  Neither setting changes during a run.
PacedOf(provider) == IF provider = "ollama" THEN {FALSE} ELSE BOOLEAN

Message(chatId, role, content) == [chatId |-> chatId, role |-> role, content |-> content]
Prompt == <<"p">>

\* ----------------------------------------------------------- the chat store
\* express handlers of the server, each one transaction.
HasChat(db, id) == \E k \in 1..Len(db) : db[k] = id

RECURSIVE Without(_, _)
Without(seq, id) ==
    IF seq = <<>> THEN <<>>
    ELSE IF Head(seq) = id THEN Without(Tail(seq), id)
    ELSE <<Head(seq)>> \o Without(Tail(seq), id)

\* chat.update({ updatedAt: new Date() }) under orderBy updatedAt desc
Touch(db, id) == <<id>> \o Without(db, id)

RECURSIVE MessagesOf(_, _)
\* GET /api/chats/:id/messages
MessagesOf(msgs, id) ==
    IF msgs = <<>> THEN <<>>
    ELSE IF Head(msgs).chatId = id THEN <<Head(msgs)>> \o MessagesOf(Tail(msgs), id)
    ELSE MessagesOf(Tail(msgs), id)

\* @default(uuid()): an id nothing holds yet
UsedIds ==
    {dbChats[k] : k \in 1..Len(dbChats)} \cup {chats[k] : k \in 1..Len(chats)}
      \cup {dbMessages[k].chatId : k \in 1..Len(dbMessages)}
      \cup {sess[i].chatId : i \in Sends} \cup clicks \cup {currentChatId}
      \cup {d.chat : d \in deletes} \cup {d.cur : d \in deletes} \cup {chatToDelete}
NewChatId == CHOOSE n \in 1..(Cardinality(UsedIds) + 1) : n \notin UsedIds

\* ------------------------------------------------------- handleSendPrompt
\* The history fields of the sessions that are streaming when the user leaves
\* their conversation for the chat selected (NoChat: a new chat).
Streaming(s) == s.pc \in {"read", "pace"}
Abandon(selected) ==
    [i \in Sends |->
       IF Streaming(sess[i]) /\ sess[i].chatId # selected /\ ~sess[i].abandoned
       THEN [sess[i] EXCEPT !.abandoned = TRUE, !.notesThen = sess[i].notes]
       ELSE sess[i]]

\* lines 386-402: up to the first await.
HandleSendPrompt(i) ==
    /\ ~Busy
    /\ sess[i].pc = "idle"
    /\ \A j \in Sends : j < i => sess[j].pc # "idle"
    /\ isConversationStarted' = TRUE
    /\ isGenerating' = TRUE
    /\ streamBuffer' = <<>>
    /\ streamedResponse' = <<>>
    /\ sess' = [sess EXCEPT ![i] =
                  [@ EXCEPT !.pc = IF currentChatId = NoChat THEN "createChat" ELSE "saveUser",
                            !.provider = apiProvider, !.paced = isGeminiModel,
                            !.chatId = currentChatId]]
    /\ UNCHANGED <<currentChatId, chatHistory, chats, settingsError, dbVars, clicks, delVars, fixed>>

\* lines 534-539: catch and finally of handleSendPrompt.
ErrorExit(i) ==
    /\ sess' = [sess EXCEPT ![i] = [@ EXCEPT !.pc = "done", !.outcome = "error"]]
    /\ settingsError' = TRUE
    /\ isGenerating' = FALSE

\* lines 403-421 with POST /api/chats
CreateChatOk(i) ==
    LET id == NewChatId
    IN  /\ ~Busy
        /\ sess[i].pc = "createChat"
        /\ dbChats' = <<id>> \o dbChats
        /\ currentChatId' = id
        /\ chats' = <<id>> \o chats
        /\ sess' = [sess EXCEPT ![i] = [@ EXCEPT !.pc = "saveUser", !.chatId = id]]
        /\ UNCHANGED <<bufVars, chatHistory, isGenerating, isConversationStarted,
                       settingsError, dbMessages, clicks, delVars, fixed>>

CreateChatFail(i) ==
    /\ ~Busy
    /\ sess[i].pc = "createChat"
    /\ ErrorExit(i)
    /\ UNCHANGED <<bufVars, uiVars, dbVars, clicks, delVars, fixed>>

\* lines 424-440 with POST /api/chats/:id/messages
SaveUserOk(i) ==
    LET id == sess[i].chatId
        m == Message(id, "user", Prompt)
    IN  /\ ~Busy
        /\ sess[i].pc = "saveUser"
        /\ HasChat(dbChats, id)
        /\ dbMessages' = Append(dbMessages, m)
        /\ dbChats' = Touch(dbChats, id)
        /\ chatHistory' = Append(chatHistory, m)
        /\ sess' = [sess EXCEPT ![i] = [@ EXCEPT !.pc = "fetch"]]
        /\ UNCHANGED <<bufVars, currentChatId, chats, isGenerating,
                       isConversationStarted, settingsError, clicks, delVars, fixed>>

\* SaveUserFail without the throw of lines 433-435: the send goes on to the
\* model request though the user message was not saved.
SaveUserFailGoesOn(i) ==
    /\ ~Busy
    /\ sess[i].pc = "saveUser"
    /\ sess' = [sess EXCEPT ![i] = [@ EXCEPT !.pc = "fetch"]]
    /\ UNCHANGED <<bufVars, uiVars, isGenerating, settingsError, dbVars, clicks,
                   delVars, fixed>>

SaveUserFail(i) ==
    /\ ~Busy
    /\ sess[i].pc = "saveUser"
    /\ ErrorExit(i)
    /\ UNCHANGED <<bufVars, uiVars, dbVars, clicks, delVars, fixed>>

\* lines 445-471 and 494-511, then lines 301-309: the endpoint answers with a
\* success status and handleStreamResponse runs to its first reader.read().
FetchOk(i, wire) ==
    /\ ~Busy
    /\ sess[i].pc = "fetch"
    /\ sess' = [sess EXCEPT ![i] =
                  [@ EXCEPT !.pc = "read", !.wire = wire, !.state = "Idle",
                            !.locked = TRUE]]
    /\ UNCHANGED <<bufVars, uiVars, isGenerating, settingsError, dbVars, clicks, delVars, fixed>>

\* FetchRejected with a catch that only logs (line 535 without line 536): the
\* user is not told.
FetchRejectedSilently(i) ==
    /\ ~Busy
    /\ sess[i].pc = "fetch"
    /\ sess' = [sess EXCEPT ![i] = [@ EXCEPT !.pc = "done", !.outcome = "error"]]
    /\ isGenerating' = FALSE
    /\ UNCHANGED <<bufVars, uiVars, settingsError, dbVars, clicks, delVars, fixed>>

\* lines 466-468 and 506-508: a non-success status (or a rejected fetch)
FetchRejected(i) ==
    /\ ~Busy
    /\ sess[i].pc = "fetch"
    /\ ErrorExit(i)
    /\ UNCHANGED <<bufVars, uiVars, dbVars, clicks, delVars, fixed>>

\* lines 474-492 and 514-532, then the finally of line 537
SaveAssistantOk(i) ==
    LET id == sess[i].chatId
        m == Message(id, "assistant", sess[i].result)
    IN  /\ ~Busy
        /\ sess[i].pc = "saveAssistant"
        /\ HasChat(dbChats, id)
        /\ dbMessages' = Append(dbMessages, m)
        /\ dbChats' = Touch(dbChats, id)
        /\ chatHistory' = Append(chatHistory, m)
        /\ isGenerating' = FALSE
        /\ sess' = [sess EXCEPT ![i] = [@ EXCEPT !.pc = "done", !.outcome = "ok"]]
        /\ UNCHANGED <<bufVars, currentChatId, chats, isConversationStarted,
                       settingsError, clicks, delVars, fixed>>

\* SaveAssistantFail with a catch that takes the user message of the send out
\* of the history again.
SaveAssistantFailRollsBack(i) ==
    /\ ~Busy
    /\ sess[i].pc = "saveAssistant"
    /\ ErrorExit(i)
    /\ chatHistory' = SelectSeq(chatHistory, LAMBDA m : m.chatId # sess[i].chatId)
    /\ UNCHANGED <<bufVars, currentChatId, chats, isConversationStarted, dbVars,
                   clicks, delVars, fixed>>

SaveAssistantFail(i) ==
    /\ ~Busy
    /\ sess[i].pc = "saveAssistant"
    /\ ErrorExit(i)
    /\ UNCHANGED <<bufVars, uiVars, dbVars, clicks, delVars, fixed>>

\* ------------------------------------------ handleNewChat, handleChatClick
\* lines 273-279
HandleNewChat ==
    /\ ~Busy
    /\ currentChatId' = NoChat
    /\ chatHistory' = <<>>
    /\ streamedResponse' = <<>>
    /\ streamBuffer' = <<>>
    /\ isConversationStarted' = FALSE
    /\ sess' = Abandon(NoChat)
    /\ navs < MaxNav
    /\ navs' = navs + 1
    /\ UNCHANGED <<chats, isGenerating, settingsError, dbVars, clicks, delVars, settings>>

\* lines 281-287: up to the await of the fetch
HandleChatClick(c) ==
    /\ ~Busy
    /\ Cardinality(clicks \cup {c}) <= MaxClicks
    /\ currentChatId' = c
    /\ streamedResponse' = <<>>
    /\ streamBuffer' = <<>>
    /\ clicks' = clicks \cup {c}
    /\ sess' = Abandon(c)
    /\ navs < MaxNav
    /\ navs' = navs + 1
    /\ UNCHANGED <<chatHistory, chats, isGenerating, isConversationStarted,
                   settingsError, dbVars, delVars, settings>>

\* lines 288-293 with GET /api/chats/:id/messages
ChatClickLoaded(c) ==
    /\ ~Busy
    /\ c \in clicks
    /\ chatHistory' = MessagesOf(dbMessages, c)
    /\ clicks' = clicks \ {c}
    /\ UNCHANGED <<bufVars, currentChatId, chats, isGenerating,
                   isConversationStarted, settingsError, dbVars, sess, delVars, fixed>>

\* lines 294-297
ChatClickFailed(c) ==
    /\ ~Busy
    /\ c \in clicks
    /\ chatHistory' = <<>>
    /\ clicks' = clicks \ {c}
    /\ UNCHANGED <<bufVars, currentChatId, chats, isGenerating,
                   isConversationStarted, settingsError, dbVars, sess, delVars, fixed>>

\* --------------------------------------- handleDeleteChat, confirmDelete
\* DELETE /api/chats/:id, the messages of a deleted chat
MessagesWithout(msgs, id) == SelectSeq(msgs, LAMBDA m : m.chatId # id)

\* lines 542-546: the confirmation of chat c is shown.
HandleDeleteChat(c) ==
    /\ ~Busy
    /\ navs < MaxNav
    /\ navs' = navs + 1
    /\ chatToDelete' = c
    /\ deleteError' = FALSE
    /\ UNCHANGED <<bufVars, uiVars, isGenerating, settingsError, dbVars, clicks,
                   deletes, res, settings, sess>>

\* lines 549-555: up to the await of the fetch; the invocation keeps the
\* chatToDelete and the currentChatId of the render it was created in.
ConfirmDelete ==
    /\ ~Busy
    /\ chatToDelete # NoChat
    /\ Cardinality(deletes) < MaxDeletes
    /\ deletes' = deletes \cup {[chat |-> chatToDelete, cur |-> currentChatId]}
    /\ UNCHANGED <<bufVars, uiVars, isGenerating, settingsError, dbVars, clicks,
                   chatToDelete, deleteError, res, fixed, sess>>

\* lines 556-569 with DELETE /api/chats/:id: the transaction commits.
DeleteOk(d) ==
    /\ ~Busy
    /\ d \in deletes
    /\ HasChat(dbChats, d.chat)
    /\ dbChats' = Without(dbChats, d.chat)
    /\ dbMessages' = MessagesWithout(dbMessages, d.chat)
    /\ chats' = Without(chats, d.chat)
    /\ IF d.cur = d.chat
       THEN /\ currentChatId' = NoChat
            /\ chatHistory' = <<>>
            /\ streamedResponse' = <<>>
            /\ sess' = Abandon(NoChat)
       ELSE UNCHANGED <<currentChatId, chatHistory, streamedResponse, sess>>
    /\ chatToDelete' = NoChat
    /\ deletes' = deletes \ {d}
    /\ UNCHANGED <<streamBuffer, isGenerating, isConversationStarted, settingsError,
                   clicks, deleteError, res, fixed>>

\* lines 556-560 and 570-573: the transaction fails (the chat does not exist,
\* or the store is out of reach) and nothing is deleted.
DeleteFail(d) ==
    /\ ~Busy
    /\ d \in deletes
    /\ deleteError' = TRUE
    /\ deletes' = deletes \ {d}
    /\ UNCHANGED <<bufVars, uiVars, isGenerating, settingsError, dbVars, clicks,
                   chatToDelete, res, fixed, sess>>

\* ------------------------------------------------- the whole application
\* The responses the endpoints send in the application specification.
AppWires(provider) ==
    IF provider = "ollama"
    THEN { MsgFrame(<<"a">>) \o MsgFrame(<<"b">>) }
    ELSE { DeltaFrame(<<"a", ",">>) \o DoneFrame }

\* The application specification delivers a response in chunks that end where
\* a frame ends (the stream-only specification cuts chunks anywhere).
FrameAligned(s) ==
    {k \in 1..MaxChunk :
       /\ s.pos + k <= Len(s.wire)
       /\ s.wire[s.pos + k] = NL
       /\ (s.pos + k < Len(s.wire) => s.wire[s.pos + k + 1] # NL)}

\* The state after the mount effect (lines 242-271) has loaded the chats: an
\* empty store, or a store with one chat that holds one finished turn.
OldTurn == <<Message(1, "user", Prompt), Message(1, "assistant", <<"a">>)>>

Init ==
    /\ streamBuffer = <<>>
    /\ streamedResponse = <<>>
    /\ isGenerating = FALSE
    /\ settingsError = FALSE
    /\ clicks = {}
    /\ navs = 0
    /\ chatToDelete = NoChat
    /\ deletes = {}
    /\ deleteError = FALSE
    /\ res = "none"
    /\ sess = [i \in Sends |-> IdleSession]
    /\ apiProvider \in Providers
    /\ isGeminiModel \in PacedOf(apiProvider)
    /\ \/ /\ dbChats = <<>>
          /\ dbMessages = <<>>
          /\ chats = <<>>
          /\ currentChatId = NoChat
          /\ chatHistory = <<>>
          /\ isConversationStarted = FALSE
       \/ /\ dbChats = <<1>>
          /\ dbMessages = OldTurn
          /\ chats = <<1>>
          /\ currentChatId = 1
          /\ chatHistory = OldTurn
          /\ isConversationStarted = TRUE

Next ==
    \/ \E i \in Sends :
         \/ HandleSendPrompt(i)
         \/ CreateChatOk(i)
         \/ CreateChatFail(i)
         \/ SaveUserOk(i)
         \/ SaveUserFail(i)
         \/ \E wire \in AppWires(sess[i].provider) : FetchOk(i, wire)
         \/ FetchRejected(i)
         \/ \E k \in FrameAligned(sess[i]) : ReadChunk(i, k)
         \/ ProcessLine(i)
         \/ EmitWord(i)
         \/ EndOfStream(i)
         \/ ReadError(i)
         \/ SaveAssistantOk(i)
         \/ SaveAssistantFail(i)
    \/ HandleNewChat
    \/ \E k \in 1..Len(chats) : HandleChatClick(chats[k])
    \/ \E c \in clicks : ChatClickLoaded(c)
    \/ \E c \in clicks : ChatClickFailed(c)
    \/ \E k \in 1..Len(chats) : HandleDeleteChat(chats[k])
    \/ ConfirmDelete
    \/ \E d \in deletes : DeleteOk(d)
    \/ \E d \in deletes : DeleteFail(d)

Spec == Init /\ [][Next]_vars

\* ------------------------------------------- the stream-only specification
\* One session that has just acquired its reader (line 301), in a chat whose
\* user message is saved; nothing else happens while it streams.
InitStream ==
    /\ streamBuffer = <<>>
    /\ streamedResponse = <<>>
    /\ currentChatId = 1
    /\ chatHistory = <<Message(1, "user", Prompt)>>
    /\ chats = <<1>>
    /\ isGenerating = TRUE
    /\ isConversationStarted = TRUE
    /\ settingsError = FALSE
    /\ dbChats = <<1>>
    /\ dbMessages = <<Message(1, "user", Prompt)>>
    /\ clicks = {}
    /\ navs = 0
    /\ chatToDelete = NoChat
    /\ deletes = {}
    /\ deleteError = FALSE
    /\ res = "none"
    /\ apiProvider \in Providers
    /\ isGeminiModel \in PacedOf(apiProvider)
    /\ \E wire \in WiresOf(FramesOf(apiProvider), MaxFrames) :
         sess = [i \in Sends |->
                   IF i = 1
                   THEN [IdleSession EXCEPT !.pc = "read", !.provider = apiProvider,
                                            !.paced = isGeminiModel, !.chatId = 1,
                                            !.wire = wire, !.state = "Idle",
                                            !.locked = TRUE]
                   ELSE IdleSession]

NextStream ==
    \E i \in Sends :
        \/ \E k \in 1..MaxChunk : ReadChunk(i, k)
        \/ ProcessLine(i)
        \/ EmitWord(i)
        \/ EndOfStream(i)
        \/ ReadError(i)

SpecStream == InitStream /\ [][NextStream]_vars

\* ---------------------------------------------- the one-prompt specification
\* One invocation of handleSendPrompt from the click to its finally, with every
\* response of up to MaxFrames frames cut into chunks anywhere; the user does
\* nothing else while it runs.  It starts with an empty store.
InitTurn == Init /\ dbChats = <<>>

NextTurn ==
    \/ HandleSendPrompt(1)
    \/ CreateChatOk(1)
    \/ CreateChatFail(1)
    \/ SaveUserOk(1)
    \/ SaveUserFail(1)
    \/ /\ sess[1].pc = "fetch"
       /\ \E wire \in WiresOf(FramesOf(sess[1].provider), MaxFrames) : FetchOk(1, wire)
    \/ FetchRejected(1)
    \/ \E k \in 1..MaxChunk : ReadChunk(1, k)
    \/ ProcessLine(1)
    \/ EmitWord(1)
    \/ EndOfStream(1)
    \/ ReadError(1)
    \/ SaveAssistantOk(1)
    \/ SaveAssistantFail(1)

SpecTurn == InitTurn /\ [][NextTurn]_vars

\* ------------------------------------------------ the store-only specification
\* The express handlers of the server, called with any chat id by any client,
\* one step per request; res is the status of the answer.  Nothing of the
\* page changes.
page == <<bufVars, uiVars, isGenerating, settingsError, clicks, chatToDelete,
          deletes, deleteError, fixed, sess>>

\* GET /api/chats (index.d.ts lines 26-45): orderBy updatedAt desc
GetChats == dbChats

\* POST /api/chats (index.d.ts lines 48-63)
PostChats ==
    /\ Len(dbChats) < MaxChats
    /\ dbChats' = <<NewChatId>> \o dbChats
    /\ res' = "ok"
    /\ UNCHANGED <<dbMessages, page>>

\* PostMessages without the chat.update of index.d.ts lines 107-110.
PostMessagesNoUpdate(id, role, content) ==
    /\ Len(dbMessages) < MaxMessages
    /\ HasChat(dbChats, id)
    /\ dbMessages' = Append(dbMessages, Message(id, role, content))
    /\ res' = "ok"
    /\ UNCHANGED <<dbChats, page>>

\* POST /api/chats/:id/messages (index.d.ts lines 97-113): the transaction of
\* message.create and chat.update commits.
PostMessages(id, role, content) ==
    /\ Len(dbMessages) < MaxMessages
    /\ HasChat(dbChats, id)
    /\ dbMessages' = Append(dbMessages, Message(id, role, content))
    /\ dbChats' = Touch(dbChats, id)
    /\ res' = "ok"
    /\ UNCHANGED page

\* DeleteChats without the message.deleteMany of index.d.ts lines 128-130 (and
\* without the cascade of the schema).
DeleteChatsKeepsMessages(id) ==
    /\ HasChat(dbChats, id)
    /\ dbChats' = Without(dbChats, id)
    /\ res' = "ok"
    /\ UNCHANGED <<dbMessages, page>>

\* DELETE /api/chats/:id (index.d.ts lines 121-138): the transaction of
\* message.deleteMany and chat.delete commits.
DeleteChats(id) ==
    /\ HasChat(dbChats, id)
    /\ dbChats' = Without(dbChats, id)
    /\ dbMessages' = MessagesWithout(dbMessages, id)
    /\ res' = "ok"
    /\ UNCHANGED page

\* index.d.ts lines 114-117 and 139-145: a statement of the transaction throws
\* (no chat has the id, or the database fails), the transaction is rolled back
\* and the answer is status 500.
RequestFails(id) ==
    /\ res' = "error"
    /\ UNCHANGED <<dbVars, page>>

StoreIds == 1..(MaxChats + 1)
StoreMessages == {<<"user", Prompt>>, <<"assistant", <<"a">>>>}

InitStore == Init

NextStore ==
    \/ PostChats
    \/ \E id \in StoreIds, m \in StoreMessages : PostMessages(id, m[1], m[2])
    \/ \E id \in StoreIds : DeleteChats(id)
    \/ \E id \in StoreIds : RequestFails(id)

SpecStore == InitStore /\ [][NextStore]_vars

\* ------------------------------------------ the one-send specification
\* The application with one invocation of handleSendPrompt: the user sends
\* one prompt and, while it runs, uses New Chat, the chat list and the delete
\* confirmation as in the application specification.
NextSolo ==
    \/ HandleSendPrompt(1)
    \/ CreateChatOk(1)
    \/ CreateChatFail(1)
    \/ SaveUserOk(1)
    \/ SaveUserFail(1)
    \/ \E wire \in AppWires(sess[1].provider) : FetchOk(1, wire)
    \/ FetchRejected(1)
    \/ \E k \in FrameAligned(sess[1]) : ReadChunk(1, k)
    \/ ProcessLine(1)
    \/ EmitWord(1)
    \/ EndOfStream(1)
    \/ ReadError(1)
    \/ SaveAssistantOk(1)
    \/ SaveAssistantFail(1)
    \/ HandleNewChat
    \/ \E k \in 1..Len(chats) : HandleChatClick(chats[k])
    \/ \E c \in clicks : ChatClickLoaded(c)
    \/ \E c \in clicks : ChatClickFailed(c)
    \/ \E k \in 1..Len(chats) : HandleDeleteChat(chats[k])
    \/ ConfirmDelete
    \/ \E d \in deletes : DeleteOk(d)
    \/ \E d \in deletes : DeleteFail(d)

SpecSolo == Init /\ [][NextSolo]_vars

\* ================================================================ claims
\* ------------------------------------------------------- reference texts
IsPrefix(a, b) == Len(a) <= Len(b) /\ SubSeq(b, 1, Len(a)) = a
StripNL(t) == SelectSeq(t, LAMBDA c : c # NL)
Received(s) == SubSeq(s.wire, 1, s.pos)

\* The fragment one complete line stands for: the text its record carries, or
\* the raw line when a LineDelimitedJSON line cannot be decoded.
Fragment(provider, paced, line) ==
    LET e == LineEffect(provider, paced, line)
    IN  IF e.kind \in {"append", "pace"} THEN e.text
        ELSE IF e.kind = "throw" THEN line
        ELSE <<>>

RECURSIVE Fragments(_, _, _, _)
\* the fragments of the first n lines, concatenated in arrival order
Fragments(provider, paced, lines, n) ==
    IF n = 0 THEN <<>>
    ELSE Fragments(provider, paced, lines, n - 1) \o Fragment(provider, paced, lines[n])

\* The fragments of the lines that have arrived completely (a text split on
\* the newline ends with what follows its last newline: an incomplete line).
ExpectedText(provider, paced, received) ==
    LET lines == SplitLines(received)
    IN  Fragments(provider, paced, lines, Len(lines) - 1)

\* The text handleStreamResponse returns when the whole response arrives as
\* one chunk.
RECURSIVE RunLines(_, _, _, _, _, _)
RunLines(provider, paced, chunk, lines, buf, wb) ==
    IF lines = <<>> THEN buf \o wb
    ELSE LET e == LineEffect(provider, paced, Head(lines))
         IN  CASE e.kind = "append" ->
                    RunLines(provider, paced, chunk, Tail(lines), buf \o e.text, wb)
               [] e.kind = "pace" ->
                    RunLines(provider, paced, chunk, Tail(lines), buf \o e.text, <<>>)
               [] e.kind = "dirty" ->
                    RunLines(provider, paced, chunk, Tail(lines), buf, wb \o e.text)
               [] e.kind = "throw" -> buf \o chunk \o wb
               [] OTHER ->
                    RunLines(provider, paced, chunk, Tail(lines), buf, wb)

OneChunkResult(provider, paced, wire) ==
    IF wire = <<>> THEN <<>>
    ELSE RunLines(provider, paced, wire, SplitLines(wire), <<>>, <<>>)

\* What has arrived ends where a line ends.
AtLineEnd(s) == s.pos = 0 \/ s.wire[s.pos] = NL

\* C1: whenever the session waits for a chunk and what has arrived ends on a
\* line end, the buffer is the concatenation, in arrival order, of the
\* fragments of the lines received (line terminators left aside), wherever
\* the chunk boundaries fell.
C1_BufferIsFragments ==
    \A i \in Sends :
        (sess[i].pc = "read" /\ AtLineEnd(sess[i])) =>
            StripNL(streamBuffer)
              = StripNL(ExpectedText(sess[i].provider, sess[i].paced, Received(sess[i])))

\* C2: whatever the chunking, the text returned at end of stream is the text
\* returned when the same response arrives as one chunk.
C2_ChunkBoundaryInvariance ==
    \A i \in Sends :
        sess[i].eos =>
            sess[i].result = OneChunkResult(sess[i].provider, sess[i].paced, sess[i].wire)

\* C3: every value a session passes to setStreamedResponse extends the value
\* it passed before.
C3_NotifiedValuesGrow ==
    [][\A i \in Sends :
           sess'[i].notes > sess[i].notes => IsPrefix(sess[i].lastNote, sess'[i].lastNote)]_vars

\* C4: with LineDelimitedJSON chunks that end on line ends, the buffer holds
\* the fragment of every valid line and the raw text of every invalid line,
\* each once and in order (line terminators left aside).
C4_InvalidLineDoesNotHalt ==
    \A i \in Sends :
        (sess[i].provider = "ollama" /\ sess[i].pc = "read" /\ ~sess[i].sawPartial) =>
            StripNL(streamBuffer)
              = StripNL(ExpectedText("ollama", FALSE, Received(sess[i])))

\* The session is about to handle the last line of a chunk that ends inside a
\* line (the rest of the line is still to come).
AtCutLine(s) ==
    /\ s.pc = "lines"
    /\ Len(s.lines) = 1
    /\ s.chunk[Len(s.chunk)] # NL
    /\ s.pos < Len(s.wire)
    /\ s.wire[s.pos + 1] # NL

\* C5: LineDelimitedJSON appends nothing of a line whose end has not arrived.
C5_IncompleteLineHeldBack ==
    [][\A i \in Sends :
           (sess[i].provider = "ollama" /\ AtCutLine(sess[i])) =>
               streamBuffer' = streamBuffer]_vars

\* C6: a ServerSentEvents line that is blank or holds the sentinel changes
\* neither the buffer nor the displayed text, notifies nobody and leaves the
\* session streaming.
C6_BlankAndSentinelSkipped ==
    [][\A i \in Sends :
           LET s == sess[i] IN
           (/\ s.pc = "lines"
            /\ s.provider = "openrouter"
            /\ (IsBlank(Head(s.lines)) \/ IncludesDone(Head(s.lines)))) =>
               /\ streamBuffer' = streamBuffer
               /\ streamedResponse' = streamedResponse
               /\ sess'[i].notes = s.notes
               /\ sess'[i].wordBuffer = s.wordBuffer
               /\ sess'[i].state = "Streaming"
               /\ sess'[i].lines = Tail(s.lines)]_vars

C6_Witness ==
    \E i \in Sends :
        /\ sess[i].provider = "openrouter"
        /\ sess[i].wire = DoneFrame \o DeltaFrame(<<"a">>)
        /\ sess[i].state = "Completed"
        /\ sess[i].result = <<"a">>
        /\ sess[i].notes = 1

\* The next line of the session is a data line whose payload is not JSON.
AtBadDataLine(s) ==
    /\ s.pc = "lines"
    /\ s.provider = "openrouter"
    /\ ~IsBlank(Head(s.lines))
    /\ ~IncludesDone(Head(s.lines))
    /\ StartsWithData(Head(s.lines))
    /\ ~JSONparse(SlicePrefix(Head(s.lines))).ok

\* C7: a ServerSentEvents data line whose payload is not JSON changes nothing
\* and the lines after it are processed next.
C7_BadDataLineSkipped ==
    [][\A i \in Sends :
           AtBadDataLine(sess[i]) =>
               /\ streamBuffer' = streamBuffer
               /\ streamedResponse' = streamedResponse
               /\ sess'[i].notes = sess[i].notes
               /\ sess'[i].state = "Streaming"
               /\ sess'[i].lines = Tail(sess[i].lines)
               /\ sess'[i].pc = AfterLine(Tail(sess[i].lines))]_vars

C7_Witness ==
    \E i \in Sends :
        /\ sess[i].provider = "openrouter"
        /\ sess[i].wire = <<"Data", "b", NL, NL>> \o DeltaFrame(<<"a">>)
        /\ ~sess[i].sawPartial
        /\ sess[i].state = "Completed"
        /\ sess[i].result = <<"a">>

\* C8: a ServerSentEvents chunk that ends inside a line never fails the
\* session: after its last line the session is still streaming and holds its
\* reader, and at end of stream it completes.
C8_PartialFinalLineSurvives ==
    [][\A i \in Sends :
           LET s == sess[i] IN
           (s.provider = "openrouter" /\ s.sawPartial) =>
               /\ (s.pc = "lines" /\ Len(s.lines) = 1 /\ s.chunk[Len(s.chunk)] # NL) =>
                      /\ sess'[i].state = "Streaming"
                      /\ sess'[i].locked
                      /\ sess'[i].pc \in {"read", "pace"}
               /\ (sess'[i].state = "Failed" => sess'[i].readErr)
               /\ (sess'[i].eos => sess'[i].state = "Completed")]_vars

C8_Witness ==
    \E i \in Sends :
        /\ sess[i].provider = "openrouter"
        /\ sess[i].sawPartial
        /\ sess[i].wire = DeltaFrame(<<"a">>)
        /\ sess[i].state = "Completed"

\* C9: a session fails only when reader.read() rejected.
C9_OnlyTransportFails ==
    \A i \in Sends :
        sess[i].state = "Failed" => sess[i].readErr

C9_Witness ==
    \E i \in Sends :
        /\ sess[i].provider = "ollama"
        /\ sess[i].wire = <<"b", NL>> \o MsgFrame(<<"a">>)
        /\ sess[i].sawPartial
        /\ sess[i].state = "Completed"

\* C10: a session the user has left makes no further notification.
C10_AbandonedSessionIsSilent ==
    \A i \in Sends : sess[i].abandoned => sess[i].notes = sess[i].notesThen

\* C11: sessions share no mutable state: while a session is streaming, no
\* step of another session changes the buffer it appends to and returns.
C11_SessionsShareNothing ==
    [][\A i \in Sends : \A j \in Sends :
           (/\ i # j
            /\ Streaming(sess[i])
            /\ sess'[i] = sess[i]
            /\ sess'[j] # sess[j]) =>
               streamBuffer' = streamBuffer]_vars

\* The session has ended: handleStreamResponse has returned or thrown.
Terminal(s) == s.state \in {"Completed", "Failed"}

\* One step of the state machine of session i, where a session may end from
\* the states of the set from: the state changes only by acquiring the reader,
\* by the first chunk, by the end of the stream or by a read error; the first
\* chunk read makes an idle session streaming; an ended session changes no
\* more, appends nothing and notifies nobody.
StateMachineStep(i, from) ==
    LET s == sess[i]
        t == sess'[i]
    IN  /\ s.state # t.state =>
              \/ s.state = "None" /\ t.state = "Idle" /\ t.locked
              \/ s.state = "Idle" /\ t.state = "Streaming" /\ t.pos > s.pos
              \/ s.state \in from /\ t.state = "Completed" /\ t.eos /\ ~t.readErr
              \/ s.state \in from /\ t.state = "Failed" /\ t.readErr /\ ~t.eos
        /\ (s.state = "Idle" /\ t.pos > s.pos) => t.state = "Streaming"
        /\ Terminal(s) =>
              /\ t.state = s.state
              /\ t.notes = s.notes
              /\ t.result = s.result
              /\ t.pos = s.pos
              /\ (t # s => streamBuffer' = streamBuffer /\ streamedResponse' = streamedResponse)

\* C12 as stated: Idle -> Streaming -> {Completed | Failed}, a session ends
\* from Streaming only, by the end of the stream or by a read error, and an
\* ended session does nothing more.
C12_StateMachine ==
    [][\A i \in Sends : StateMachineStep(i, {"Streaming"})]_vars

\* C12 amended: as C12, but a session also ends from Idle, when the end of
\* the stream or a read error comes before the first chunk.
C12_StateMachineFromIdle ==
    [][\A i \in Sends : StateMachineStep(i, {"Idle", "Streaming"})]_vars

\* A session that streamed, completed and whose caller then saved the text.
C12_Witness ==
    \E i \in Sends :
        /\ sess[i].state = "Completed"
        /\ sess[i].pos > 0
        /\ sess[i].notes > 0
        /\ sess[i].pc = "done"
        /\ sess[i].outcome = "ok"

\* C13: the reader a session acquired is released exactly once, on the step
\* that ends the session, whether by the end of the stream or by a read
\* error: a running session holds it, an ended session does not, and it is
\* never acquired again.
C13_ReaderReleasedOnce ==
    [][\A i \in Sends :
           LET s == sess[i]
               t == sess'[i]
           IN  /\ Terminal(t) => ~t.locked
               /\ t.state \in {"Idle", "Streaming"} => t.locked
               /\ (s.locked /\ ~t.locked) => (~Terminal(s) /\ Terminal(t))
               /\ (~s.locked /\ t.locked) => s.state = "None"]_vars

\* A session that failed on a read error after it had appended text.
C13_Witness ==
    \E i \in Sends :
        /\ sess[i].state = "Failed"
        /\ sess[i].readErr
        /\ sess[i].notes > 0
        /\ ~sess[i].locked

\* The store holds an assistant message of the chat.
HasAssistantMessage(msgs, id) ==
    \E k \in 1..Len(msgs) : msgs[k].chatId = id /\ msgs[k].role = "assistant"

\* C14: on the step on which reader.read() rejects, the error reaches
\* handleSendPrompt (the invocation ends with the failure notice set), the
\* buffer and the displayed text stay as they were, and nothing is saved; the
\* chat of a failed prompt holds no assistant message.
C14_ReadErrorKeepsPartialUnsaved ==
    [][\A i \in Sends :
           LET s == sess[i]
               t == sess'[i]
           IN  /\ (~s.readErr /\ t.readErr) =>
                     /\ t.state = "Failed"
                     /\ t.pc = "done"
                     /\ t.outcome = "error"
                     /\ settingsError'
                     /\ ~isGenerating'
                     /\ streamBuffer' = streamBuffer
                     /\ streamedResponse' = streamedResponse
                     /\ dbMessages' = dbMessages
               /\ t.readErr => ~HasAssistantMessage(dbMessages', t.chatId)]_vars

\* A session that failed after it had appended text: the text is still in the
\* buffer and on display, and the chat holds the user's message only.
C14_Witness ==
    \E i \in Sends :
        /\ sess[i].readErr
        /\ sess[i].notes > 0
        /\ streamBuffer # <<>>
        /\ streamedResponse = streamBuffer
        /\ settingsError
        /\ dbMessages = <<Message(sess[i].chatId, "user", Prompt)>>

\* C15: on the step on which the endpoint's answer is refused for its status,
\* no session exists afterwards (no reader, no state, nothing notified), the
\* buffer, the displayed text and the store are untouched, the failure notice
\* is set and the invocation is over.
C15_RejectionCreatesNoSession ==
    [][\A i \in Sends :
           LET s == sess[i]
               t == sess'[i]
           IN  (s.pc = "fetch" /\ t.pc = "done") =>
                   /\ t.state = "None"
                   /\ ~t.locked
                   /\ t.notes = 0
                   /\ t.outcome = "error"
                   /\ streamBuffer' = streamBuffer
                   /\ streamedResponse' = streamedResponse
                   /\ dbMessages' = dbMessages
                   /\ ~HasAssistantMessage(dbMessages', t.chatId)
                   /\ settingsError'
                   /\ ~isGenerating']_vars

\* The prompt was saved, the endpoint refused, and the invocation is over.
C15_Witness ==
    \E i \in Sends :
        /\ sess[i].pc = "done"
        /\ sess[i].state = "None"
        /\ sess[i].outcome = "error"
        /\ settingsError
        /\ streamBuffer = <<>>
        /\ dbMessages = <<Message(sess[i].chatId, "user", Prompt)>>

RECURSIVE Concat(_)
\* the texts of a sequence joined in order
Concat(texts) == IF texts = <<>> THEN <<>> ELSE Head(texts) \o Concat(Tail(texts))

\* w is a sub-token: a run of whitespace, one punctuation character, or a run
\* of other characters.
IsSubToken(w) ==
    /\ w # <<>>
    /\ \A k \in 1..Len(w) : Class(w[k]) = Class(w[1])
    /\ Class(w[1]) = "punct" => Len(w) = 1

\* C16: a paced record's text is split into sub-tokens that join to the text;
\* the record's step appends nothing and suspends; every later append is one
\* timer step that appends the next sub-token and notifies the new buffer;
\* what is appended and what is still to come always join to the text, so
\* that after the last sub-token the buffer has grown by exactly the text.
C16_PacedRecordIsEmittedWhole ==
    [][\A i \in Sends :
           LET s == sess[i]
               t == sess'[i]
               e == LineEffect(s.provider, s.paced, Head(s.lines))
           IN  /\ (s.pc = "lines" /\ e.kind = "pace") =>
                     /\ t.pc = "pace"
                     /\ streamBuffer' = streamBuffer
                     /\ t.notes = s.notes
                     /\ Concat(t.words) = e.text
                     /\ \A k \in 1..Len(t.words) : IsSubToken(t.words[k])
               /\ s.pc = "pace" =>
                     /\ streamBuffer' = streamBuffer \o Head(s.words)
                     /\ streamBuffer' \o Concat(t.words) = streamBuffer \o Concat(s.words)
                     /\ t.notes = s.notes + 1
                     /\ t.lastNote = streamBuffer'
                     /\ streamedResponse' = streamBuffer'
                     /\ t.pc = IF t.words = <<>> THEN AfterLine(s.lines) ELSE "pace"
               /\ (s.paced /\ streamBuffer' # streamBuffer) =>
                     (s.pc = "pace" \/ (s.pc = "read" /\ t.eos))]_vars

\* The text "a, b" was emitted as the four sub-tokens "a", ",", " ", "b".
C16_Witness ==
    \E i \in Sends :
        /\ sess[i].paced
        /\ sess[i].wire = DeltaFrame(<<"a", ",", "SP", "b">>)
        /\ sess[i].state = "Completed"
        /\ sess[i].notes = 4
        /\ sess[i].result = <<"a", ",", "SP", "b">>

\* The record a line holds, as the branch of the provider decodes it (lines
\* 318-320 and 338-342); NoValue when the line is passed over or is not JSON.
RecordOf(provider, line) ==
    IF provider = "ollama"
    THEN IF IsBlank(line) THEN NoValue ELSE JSONparse(line)
    ELSE IF IsBlank(line) \/ IncludesDone(line) \/ ~StartsWithData(line) THEN NoValue
         ELSE JSONparse(SlicePrefix(line))

\* The record matches a content shape: it carries a string as its message
\* content, its response text or its first choice's delta content, the last
\* two not empty.
CarriesText(provider, d) ==
    /\ d.ok
    /\ d.has = "string"
    /\ \/ provider = "ollama" /\ d.shape = "message"
       \/ provider = "ollama" /\ d.shape = "response" /\ d.text # <<>>
       \/ provider # "ollama" /\ d.shape = "choices" /\ d.text # <<>>

\* C17: a session that is not paced appends the text of a record on the step
\* that extracts it, whole, notifies once and does not suspend on a timer.
C17_UnpacedRecordIsAppendedAtOnce ==
    [][\A i \in Sends :
           LET s == sess[i]
               t == sess'[i]
               d == RecordOf(s.provider, Head(s.lines))
           IN  /\ (s.pc = "lines" /\ ~s.paced /\ CarriesText(s.provider, d)) =>
                     /\ streamBuffer' = streamBuffer \o d.text
                     /\ streamedResponse' = streamBuffer'
                     /\ t.notes = s.notes + 1
                     /\ t.lastNote = streamBuffer'
                     /\ t.words = <<>>
                     /\ t.pc = AfterLine(Tail(s.lines))
               /\ ~s.paced => t.pc # "pace"]_vars

\* The text "a, b" of one record was appended with one notification.
C17_Witness ==
    \E i \in Sends :
        /\ sess[i].provider = "openrouter"
        /\ ~sess[i].paced
        /\ sess[i].wire = DeltaFrame(<<"a", ",", "SP", "b">>)
        /\ sess[i].state = "Completed"
        /\ sess[i].notes = 1
        /\ sess[i].result = <<"a", ",", "SP", "b">>

\* The text without what the flush adds for a content that is not a string.
WithoutHeld(t) == SelectSeq(t, LAMBDA c : c # "5")

\* C18: the step that ends the stream appends what wordBuffer still holds,
\* notifies it and returns the buffer so extended.  What wordBuffer holds was
\* never appended: the holding buffer grows only on a step that appends
\* nothing, it is empty once the last sub-token of a record is out, and the
\* stream cannot end while sub-tokens are pending.  With chunks that end on
\* line ends the returned text, a flushed content that is not a string left
\* aside, is the fragments of the response, each once and in order.
C18_FlushAddsOnlyHeldText ==
    [][\A i \in Sends :
           LET s == sess[i]
               t == sess'[i]
           IN  /\ (~s.eos /\ t.eos) =>
                     /\ s.pc = "read"
                     /\ s.words = <<>>
                     /\ streamBuffer' = streamBuffer \o s.wordBuffer
                     /\ t.result = streamBuffer'
                     /\ s.wordBuffer # <<>> =>
                           /\ streamedResponse' = streamBuffer'
                           /\ t.notes = s.notes + 1
                     /\ (t.paced /\ ~t.sawPartial) =>
                           WithoutHeld(t.result)
                             = ExpectedText(t.provider, t.paced, t.wire)
               /\ (t.wordBuffer # s.wordBuffer /\ t.wordBuffer # <<>>) =>
                     streamBuffer' = streamBuffer
               /\ (s.pc = "pace" /\ t.pc # "pace") => t.wordBuffer = <<>>
               /\ ~t.paced => t.wordBuffer = <<>>]_vars

\* A paced session whose last record left its content in wordBuffer: the
\* flush appended it after the fragment "a".
C18_Witness ==
    \E i \in Sends :
        /\ sess[i].paced
        /\ sess[i].wire = DeltaFrame(<<"a">>) \o <<"Data", "DeltaNum", NL, NL>>
        /\ sess[i].state = "Completed"
        /\ sess[i].wordBuffer # <<>>
        /\ sess[i].result = <<"a">> \o sess[i].wordBuffer
        /\ sess[i].notes = 2

\* C19: a chunk is read only when no line and no sub-token of the chunk before
\* is pending, and it is the text that follows that chunk on the transport;
\* each step of the for-loop takes the first pending line, each timer step the
\* first pending sub-token; when the session goes back to reading, no line
\* with content has been left out.
C19_ChunksAndLinesInOrder ==
    [][\A i \in Sends :
           LET s == sess[i]
               t == sess'[i]
           IN  /\ t.pos # s.pos =>
                     /\ s.pc = "read"
                     /\ s.lines = <<>>
                     /\ s.words = <<>>
                     /\ t.pos > s.pos
                     /\ t.chunk = SubSeq(s.wire, s.pos + 1, t.pos)
                     /\ t.lines = SplitLines(t.chunk)
               /\ (s.pc = "lines" /\ t.pc \in {"lines", "pace"}) =>
                     t.lines = Tail(s.lines)
               /\ (s.pc = "lines" /\ t.pc = "read") =>
                     \A k \in 2..Len(s.lines) : IsBlank(s.lines[k])
               /\ s.pc = "pace" =>
                     /\ t.words = Tail(s.words)
                     /\ t.lines = s.lines
                     /\ t.pc = "read" => (t.words = <<>> /\ t.lines = <<>>)]_vars

\* C20: a line whose record decodes but matches no content shape changes
\* nothing and the loop goes on with the next line; the text a record adds
\* to the buffer (at once, or as the sub-tokens to emit) is the string it
\* carries.
C20_OnlyCarriedStringsAreAppended ==
    [][\A i \in Sends :
           LET s == sess[i]
               t == sess'[i]
               d == RecordOf(s.provider, Head(s.lines))
           IN  (s.pc = "lines" /\ d.ok) =>
                   IF CarriesText(s.provider, d)
                   THEN IF s.paced
                        THEN streamBuffer' = streamBuffer /\ Concat(t.words) = d.text
                        ELSE streamBuffer' = streamBuffer \o d.text
                   ELSE /\ streamBuffer' = streamBuffer
                        /\ streamedResponse' = streamedResponse
                        /\ t.notes = s.notes
                        /\ t.wordBuffer = s.wordBuffer
                        /\ t.words = <<>>
                        /\ t.lines = Tail(s.lines)
                        /\ t.state = "Streaming"]_vars

\* C21: between the steps of the handlers the displayed text is the buffer:
\* streamedResponse equals streamBufferRef.current in every reachable state.
C21_DisplayedIsBuffer == streamedResponse = streamBuffer

\* The lines of a text that are not blank.
Records(text) == SelectSeq(SplitLines(text), LAMBDA l : ~IsBlank(l))

RECURSIVE CarriedTexts(_, _)
\* The strings the records of the lines carry, joined in order.
CarriedTexts(provider, lines) ==
    IF lines = <<>> THEN <<>>
    ELSE LET d == RecordOf(provider, Head(lines))
         IN  (IF CarriesText(provider, d) THEN d.text ELSE <<>>)
               \o CarriedTexts(provider, Tail(lines))

\* Every record of the response carries a text.
AllRecordsCarryText(provider, wire) ==
    \A k \in 1..Len(Records(wire)) :
        CarriesText(provider, RecordOf(provider, Records(wire)[k]))

\* C22: a LineDelimitedJSON response whose records all carry a text, delivered
\* in chunks of complete records: whenever the session waits for a chunk it
\* has notified once per record received, the last time with the buffer, and
\* the buffer is the texts of those records joined in order (c1, then c1c2,
\* ...); the text returned at the end of the stream is c1...cn.
C22_LineDelimitedScenario ==
    \A i \in Sends :
        LET s == sess[i] IN
        (/\ s.provider = "ollama"
         /\ AllRecordsCarryText("ollama", s.wire)
         /\ ~s.sawPartial
         /\ s.state \in {"Idle", "Streaming", "Completed"}) =>
            /\ s.pc = "read" =>
                  /\ streamBuffer = CarriedTexts("ollama", Records(Received(s)))
                  /\ s.notes = Len(Records(Received(s)))
                  /\ s.notes > 0 => s.lastNote = streamBuffer
                  /\ streamedResponse = streamBuffer
            /\ s.eos =>
                  /\ s.result = CarriedTexts("ollama", Records(s.wire))
                  /\ s.notes = Len(Records(s.wire))

\* The records "a" and "b" came one per chunk and the session returned "ab".
C22_Witness ==
    \E i \in Sends :
        /\ sess[i].provider = "ollama"
        /\ sess[i].wire = MsgFrame(<<"a">>) \o RespFrame(<<"b">>)
        /\ sess[i].chunk = RespFrame(<<"b">>)
        /\ ~sess[i].sawPartial
        /\ sess[i].state = "Completed"
        /\ sess[i].notes = 2
        /\ sess[i].lastNote = <<"a", "b">>
        /\ sess[i].result = <<"a", "b">>

\* A line "data: {"choices":[{"delta":{"content":c}}]}" with a string c.
IsDeltaLine(line) ==
    /\ Len(line) >= 3
    /\ line[1] = "Data" /\ line[2] = "DeltaOpen" /\ line[Len(line)] = "DeltaClose"

\* The response is data frames with delta contents, then the sentinel frame.
IsDeltaScenario(wire) ==
    LET r == Records(wire) IN
    /\ Len(r) >= 1
    /\ r[Len(r)] = <<"Data", "Done">>
    /\ \A k \in 1..(Len(r) - 1) : IsDeltaLine(r[k])

RECURSIVE DeltaContents(_)
\* c1...cn of the delta lines, as written in the frames.
DeltaContents(lines) ==
    IF lines = <<>> THEN <<>>
    ELSE (IF IsDeltaLine(Head(lines))
          THEN SubSeq(Head(lines), 3, Len(Head(lines)) - 1) ELSE <<>>)
           \o DeltaContents(Tail(lines))

RECURSIVE DeltaContentsKept(_)
\* The delta contents of the lines that do not contain the sentinel text.
DeltaContentsKept(lines) ==
    IF lines = <<>> THEN <<>>
    ELSE (IF IsDeltaLine(Head(lines)) /\ ~IncludesDone(Head(lines))
          THEN SubSeq(Head(lines), 3, Len(Head(lines)) - 1) ELSE <<>>)
           \o DeltaContentsKept(Tail(lines))

PersistsAssistant ==
    /\ Len(dbMessages') = Len(dbMessages) + 1
    /\ dbMessages'[Len(dbMessages')].role = "assistant"

\* C24: the step that completes the session returns the buffer with the held
\* text flushed into it, whole; a step that persists an assistant message comes
\* after the end of the stream of a completed session and persists, in the
\* chat of the send, exactly the returned text, which is the buffer and is not
\* blank; a blank returned text ends the send with nothing persisted.
C24_ReturnedTextIsPersisted ==
    [][ LET s == sess[1]
            t == sess'[1]
        IN  /\ (~s.eos /\ t.eos) =>
                  /\ t.state = "Completed"
                  /\ t.result = streamBuffer'
                  /\ streamBuffer' = streamBuffer \o s.wordBuffer
                  /\ IsBlankText(t.result) => t.pc = "done"
            /\ PersistsAssistant =>
                  /\ s.eos /\ s.state = "Completed"
                  /\ dbMessages' = Append(dbMessages,
                                          Message(s.chatId, "assistant", s.result))
                  /\ s.result = streamBuffer
                  /\ ~IsBlankText(s.result)
            /\ (s.pc = "done" /\ ~HasAssistantMessage(dbMessages, s.chatId)) =>
                  ~HasAssistantMessage(dbMessages', s.chatId)
      ]_vars

\* The paced response "a, b" was returned whole and persisted.
C24_Witness ==
    /\ sess[1].eos
    /\ sess[1].pc = "done"
    /\ sess[1].outcome = "ok"
    /\ sess[1].paced
    /\ sess[1].result = <<"a", ",", "SP", "b">>
    /\ streamBuffer = sess[1].result
    /\ dbMessages = <<Message(sess[1].chatId, "user", Prompt),
                      Message(sess[1].chatId, "assistant", <<"a", ",", "SP", "b">>)>>

\* Every message of the store belongs to a chat of the store.
NoOrphanMessage(cs, ms) == \A k \in 1..Len(ms) : HasChat(cs, ms[k].chatId)

\* C25: the store never holds a message whose chat does not exist; a step that
\* removes a chat removes all its messages with it and leaves the other chats
\* and their messages as they were; a request answered with an error (a delete
\* of a chat that does not exist among them) leaves chats and messages
\* unchanged, and nothing leaves the store but by the removal of a chat.
C25_DeleteIsAtomic ==
    /\ [] NoOrphanMessage(dbChats, dbMessages)
    /\ [][ /\ \A id \in StoreIds :
                (HasChat(dbChats, id) /\ ~HasChat(dbChats', id)) =>
                    /\ MessagesOf(dbMessages', id) = <<>>
                    /\ dbChats' = Without(dbChats, id)
                    /\ dbMessages' = MessagesWithout(dbMessages, id)
                    /\ \A o \in StoreIds \ {id} :
                          MessagesOf(dbMessages', o) = MessagesOf(dbMessages, o)
           /\ res' = "error" => UNCHANGED dbVars
           /\ (Len(dbChats') < Len(dbChats) \/ Len(dbMessages') < Len(dbMessages)) =>
                 \E id \in StoreIds : HasChat(dbChats, id) /\ ~HasChat(dbChats', id)
      ]_vars

\* Chat 1 with its two messages was deleted; chat 2 keeps its message.
C25_Witness ==
    /\ currentChatId = 1
    /\ dbChats = <<2>>
    /\ dbMessages = <<Message(2, "user", Prompt)>>
    /\ res = "ok"

\* The chats of the store as a set.
ChatSet(cs) == {cs[k] : k \in 1..Len(cs)}

\* C26: a step that adds a message adds it after all the messages there were
\* and makes its chat the first of the chat list, the other chats keeping
\* their order; the messages of that chat are the ones it had, in the order
\* they were created, and then the new one; the order of the chat list changes
\* only with the addition of a message (both or neither), and an error answer
\* leaves messages and list as they were.
C26_AppendUpdatesRecency ==
    [][ /\ Len(dbMessages') = Len(dbMessages) + 1 =>
              LET m == dbMessages'[Len(dbMessages')] IN
              /\ dbMessages' = Append(dbMessages, m)
              /\ HasChat(dbChats, m.chatId)
              /\ GetChats'[1] = m.chatId
              /\ Without(GetChats', m.chatId) = Without(GetChats, m.chatId)
              /\ MessagesOf(dbMessages', m.chatId)
                    = Append(MessagesOf(dbMessages, m.chatId), m)
              /\ res' = "ok"
        /\ (ChatSet(dbChats') = ChatSet(dbChats) /\ dbChats' # dbChats) =>
              Len(dbMessages') = Len(dbMessages) + 1
        /\ res' = "error" => (dbMessages' = dbMessages /\ GetChats' = GetChats)
      ]_vars

\* Chat 2 was created after chat 1; a third message was then added to chat 1,
\* which is first in the list again.
C26_Witness ==
    /\ currentChatId = 1
    /\ GetChats = <<1, 2>>
    /\ dbMessages = OldTurn \o <<Message(1, "assistant", <<"a">>)>>
    /\ res = "ok"

\* The step is the failure of a request of session i to the chat store.
StoreCallFails(i) ==
    /\ sess[i].pc \in {"createChat", "saveUser", "saveAssistant"}
    /\ sess'[i].pc = "done"
    /\ sess'[i].outcome = "error"

\* The step is the failure of a delete request.
DeleteCallFails ==
    /\ \E d \in deletes : deletes' = deletes \ {d}
    /\ dbChats' = dbChats

\* C27: a step on which the creation of the chat, the saving of a message or
\* the deletion of a chat fails sets the error message (the failure notice of
\* the send, the error of the delete confirmation) and leaves the history
\* shown, the current chat id and the chat list as they were, the user
\* message added before a failed save of the answer included; the store is
\* left as it was too.
C27_PersistenceFailureKeepsState ==
    [][ /\ \A i \in Sends : StoreCallFails(i) =>
              /\ settingsError'
              /\ ~isGenerating'
              /\ UNCHANGED <<currentChatId, chatHistory, chats, dbVars>>
        /\ DeleteCallFails =>
              /\ deleteError'
              /\ chatToDelete' = chatToDelete
              /\ UNCHANGED <<currentChatId, chatHistory, chats, dbVars>>
      ]_vars

\* The save of the answer failed: the notice is set and the user message of
\* the send is still shown in the chat the send created; and a delete failed.
C27_Witness ==
    /\ sess[1].eos
    /\ sess[1].pc = "done"
    /\ sess[1].outcome = "error"
    /\ settingsError
    /\ currentChatId = sess[1].chatId
    /\ chats = <<sess[1].chatId>>
    /\ chatHistory = <<Message(sess[1].chatId, "user", Prompt)>>
    /\ deleteError
    /\ chatToDelete = sess[1].chatId

\* The response is sentinel frames and data frames with delta contents, in any
\* order, at least one data frame with a content that is not empty coming
\* after a sentinel frame.
HasFrameAfterSentinel(wire) ==
    LET r == Records(wire) IN
    /\ \A k \in 1..Len(r) : r[k] = <<"Data", "Done">> \/ IsDeltaLine(r[k])
    /\ \E k \in 1..Len(r) : \E j \in (k + 1)..Len(r) :
          /\ r[k] = <<"Data", "Done">>
          /\ IsDeltaLine(r[j]) /\ ~IncludesDone(r[j]) /\ Len(r[j]) > 3

\* C28: a session becomes Completed only on the step on which reader.read()
\* signals the end of the stream, with every chunk of the response read; the
\* step that meets a sentinel line leaves the session streaming and goes on
\* with the next line of the chunk; a response with data frames after a
\* sentinel frame ends with the contents of those frames in the returned text.
C28_OnlyEndOfStreamCompletes ==
    /\ [][ \A i \in Sends :
             LET s == sess[i]
                 t == sess'[i]
             IN  /\ (s.state # "Completed" /\ t.state = "Completed") =>
                       /\ s.pc = "read" /\ s.pos = Len(s.wire)
                       /\ ~s.eos /\ t.eos
                 /\ (/\ s.pc = "lines" /\ s.provider # "ollama"
                     /\ IncludesDone(Head(s.lines))) =>
                       /\ t.state = "Streaming" /\ ~t.eos
                       /\ t.lines = Tail(s.lines)
                       /\ t.pc = AfterLine(Tail(s.lines))
                       /\ t.locked
         ]_vars
    /\ [] \A i \in Sends :
            LET s == sess[i] IN
            (/\ s.provider # "ollama" /\ HasFrameAfterSentinel(s.wire)
             /\ ~s.sawPartial /\ s.eos) =>
                /\ s.state = "Completed"
                /\ s.result = DeltaContentsKept(Records(s.wire))
                /\ s.result # <<>>

\* The sentinel frame came first and the frame of "a, b" after it; the session
\* went on and completed with "a, b" at the end of the stream.
C28_Witness ==
    \E i \in Sends :
        /\ sess[i].provider # "ollama"
        /\ sess[i].wire = DoneFrame \o DeltaFrame(<<"a", ",", "SP", "b">>)
        /\ ~sess[i].sawPartial
        /\ sess[i].eos
        /\ sess[i].state = "Completed"
        /\ sess[i].result = <<"a", ",", "SP", "b">>

\* C29: the step on which a send persists its assistant message adds, to the
\* chat the prompt was sent in, a message that holds the texts of all the
\* records of the response joined in order, whatever the user did while the
\* response was streaming.
C29_PersistedIsWholeResponse ==
    [][ \A i \in Sends :
          (/\ sess[i].pc = "saveAssistant"
           /\ sess'[i].pc = "done"
           /\ sess'[i].outcome = "ok") =>
              dbMessages' = Append(dbMessages,
                                   Message(sess[i].chatId, "assistant",
                                           CarriedTexts(sess[i].provider,
                                                        Records(sess[i].wire))))
      ]_vars

\* C30: every message of the history shown belongs to the chat selected.
C30_HistoryIsOfCurrentChat ==
    \A k \in 1..Len(chatHistory) : chatHistory[k].chatId = currentChatId

\* t is the end of u.
IsSuffix(t, u) ==
    /\ Len(t) <= Len(u)
    /\ t = SubSeq(u, Len(u) - Len(t) + 1, Len(u))

\* C31: handleStreamResponse of every send starts with the buffer and the
\* displayed response empty, and the text a completed session returns holds
\* nothing but text of its own response (it is an end of the texts its
\* records carry).
C31_SessionStartsEmpty ==
    [][ \A i \in Sends :
          /\ (sess[i].pc = "fetch" /\ sess'[i].pc = "read") =>
                /\ streamBuffer = <<>>
                /\ streamedResponse = <<>>
          /\ (~sess[i].eos /\ sess'[i].eos) =>
                IsSuffix(sess'[i].result,
                         CarriedTexts(sess[i].provider, Records(sess[i].wire)))
      ]_vars

\* The number of messages of the role among the first n of msgs.
CountRole(msgs, role, n) ==
    Cardinality({k \in 1..n : msgs[k].role = role})

\* In every chat, up to any message, there are at least as many user messages
\* as assistant messages: every answer comes after the prompt of its turn.
UserPrecedesAssistant ==
    \A k \in 1..Len(dbChats) :
        LET msgs == MessagesOf(dbMessages, dbChats[k]) IN
        \A n \in 1..Len(msgs) :
            CountRole(msgs, "assistant", n) <= CountRole(msgs, "user", n)

\* C32: the model request of a send is made on the step on which its user
\* message is saved in its chat, which exists in the store, and on no other
\* step; a send whose chat creation or user-message save fails ends with the
\* failure notice and makes no model request; in the store every assistant
\* message comes after the user message of its turn.
C32_UserMessageSavedFirst ==
    /\ [][ \A i \in Sends :
             LET s == sess[i]
                 t == sess'[i]
             IN  /\ (s.pc # "fetch" /\ t.pc = "fetch") =>
                       /\ s.pc = "saveUser"
                       /\ HasChat(dbChats', t.chatId)
                       /\ dbMessages' = Append(dbMessages,
                                               Message(t.chatId, "user", Prompt))
                 /\ (s.pc = "createChat" /\ t.pc = "saveUser") =>
                       HasChat(dbChats', t.chatId)
                 /\ (s.pc \in {"createChat", "saveUser"} /\ t.pc # s.pc /\ t.pc # "fetch"
                       /\ ~(s.pc = "createChat" /\ t.pc = "saveUser")) =>
                       /\ t.pc = "done" /\ t.outcome = "error"
                       /\ t.state = "None"
                       /\ dbMessages' = dbMessages
                 /\ (s.state = "None" /\ t.state # "None") => s.pc = "fetch"
                 /\ PersistsAssistant =>
                       \E k \in 1..Len(dbMessages) :
                          /\ dbMessages[k].role = "user"
                          /\ dbMessages[k].chatId = dbMessages'[Len(dbMessages')].chatId
         ]_vars
    /\ [] UserPrecedesAssistant

\* The send created its chat and saved its user message there: its model
\* request is in flight and nothing else is in the store.
C32_Witness ==
    /\ sess[1].pc = "fetch"
    /\ sess[1].chatId # NoChat
    /\ dbChats = <<sess[1].chatId>>
    /\ dbMessages = <<Message(sess[1].chatId, "user", Prompt)>>
    /\ chatHistory = dbMessages

\* C33: whenever the response of some send is still streaming (its session
\* waits for a chunk or for the timer of a word, or handles the lines of a
\* chunk), isGenerating is true, sends that overlap included.
C33_StreamingImpliesGenerating ==
    (\E i \in Sends : Streaming(sess[i]) \/ sess[i].pc = "lines") => isGenerating

\* C34: one conversation is backed by at most one chat: as long as the user
\* has only sent prompts (no New Chat, no use of the chat list), the store
\* holds at most one chat, whether the conversation started fresh or in the
\* chat of an earlier turn.
C34_OneChatPerConversation ==
    navs = 0 => Len(dbChats) <= 1


====
